---------------------------- MODULE Spec2Model ----------------------------
(***************************************************************************)
(* Model of the subject-index pipeline of beyond-popular-science:          *)
(*   src/index/extract_subjects.py      pass1, pass2, regenerate           *)
(*   src/index/consolidate_subjects.py  the batched consolidator           *)
(*                                                                         *)
(* A Python str is a sequence of code points (ASCII, the micro sign and    *)
(* the Greek letters alpha and mu), None is the empty tuple and a present  *)
(* value v is the one-element tuple <<v>>; a Python dict is an association *)
(* list in insertion order, a list is a sequence.                          *)
(***************************************************************************)
EXTENDS Integers, Sequences, FiniteSets, TLC

(***************************************************************************)
(* Python built-ins on str, list and dict                                  *)
(***************************************************************************)

None == <<>>

Some(v) == <<v>>

IsNone(o) == o = <<>>

Val(o) == o[1]

\* str.lower() on one code point: 'A'..'Z' (65..90) map to 'a'..'z', the
\* Greek capitals alpha (U+0391) and mu (U+039C) to U+03B1 and U+03BC
LowerChar(c) ==
  IF c >= 65 /\ c <= 90 THEN c + 32
  ELSE IF c \in {913, 924} THEN c + 32
  ELSE c

\* str.upper() on one code point: 'a'..'z' (97..122) map to 'A'..'Z', Greek
\* alpha (U+03B1) and mu (U+03BC) to their capitals, and the micro sign
\* (U+00B5) to the Greek capital mu (U+039C)
UpperChar(c) ==
  IF c >= 97 /\ c <= 122 THEN c - 32
  ELSE IF c \in {945, 956} THEN c - 32
  ELSE IF c = 181 THEN 924
  ELSE c

Lower(s) == [i \in 1..Len(s) |-> LowerChar(s[i])]

\* str.strip(): leading and trailing whitespace (space, \t, \n, \r) removed
IsSpace(c) == c \in {32, 9, 10, 13}

RECURSIVE LStrip(_)
LStrip(s) == IF s # <<>> /\ IsSpace(Head(s)) THEN LStrip(Tail(s)) ELSE s

RECURSIVE RStrip(_)
RStrip(s) ==
  IF s # <<>> /\ IsSpace(s[Len(s)]) THEN RStrip(SubSeq(s, 1, Len(s) - 1)) ELSE s

Strip(s) == RStrip(LStrip(s))

\* `sub in s` for two str
StartsWith(s, p) == Len(p) <= Len(s) /\ SubSeq(s, 1, Len(p)) = p

Contains(s, sub) ==
  \E i \in 0..(Len(s) - Len(sub)) : SubSeq(s, i + 1, i + Len(sub)) = sub

\* str.split(sep) for a non-empty sep: leftmost non-overlapping occurrences
RECURSIVE SplitFrom(_, _, _)
SplitFrom(s, sep, cur) ==
  IF s = <<>> THEN <<cur>>
  ELSE IF StartsWith(s, sep)
       THEN <<cur>> \o SplitFrom(SubSeq(s, Len(sep) + 1, Len(s)), sep, <<>>)
       ELSE SplitFrom(Tail(s), sep, Append(cur, Head(s)))

Split(s, sep) == SplitFrom(s, sep, <<>>)

\* str < str: lexicographic on code points
RECURSIVE StrLess(_, _)
StrLess(a, b) ==
  IF b = <<>> THEN FALSE
  ELSE IF a = <<>> THEN TRUE
  ELSE IF Head(a) # Head(b) THEN Head(a) < Head(b)
  ELSE StrLess(Tail(a), Tail(b))

\* list membership and sequence helpers
InSeq(x, s) == \E i \in 1..Len(s) : s[i] = x

Range(s) == {s[i] : i \in 1..Len(s)}

NoDup(s) == \A i, j \in 1..Len(s) : i # j => s[i] # s[j]

RECURSIVE Concat(_)
Concat(ss) == IF ss = <<>> THEN <<>> ELSE Head(ss) \o Concat(Tail(ss))

\* sorted(s, key=...): stable; keys[i] is the str sort key of s[i]
SortedByKey(s, keys) ==
  LET Before(j, i) == StrLess(keys[j], keys[i]) \/ (keys[j] = keys[i] /\ j < i)
      Rank(i) == Cardinality({j \in 1..Len(s) : Before(j, i)}) + 1
  IN  [p \in 1..Len(s) |-> s[CHOOSE i \in 1..Len(s) : Rank(i) = p]]

\* sorted(strs)
SortedStrs(s) == SortedByKey(s, s)

\* sorted(ints)
SortedInts(s) == SortedByKey(s, [i \in 1..Len(s) |-> <<s[i]>>])

\* list.append(x) guarded by `if x not in list`
AddOnce(s, x) == IF InSeq(x, s) THEN s ELSE Append(s, x)

RECURSIVE AddAllOnce(_, _)
AddAllOnce(s, xs) ==
  IF xs = <<>> THEN s ELSE AddAllOnce(AddOnce(s, Head(xs)), Tail(xs))

\* dict as a sequence of [k, v] items in insertion order
DictKeys(d) == [i \in 1..Len(d) |-> d[i].k]

DictHas(d, key) == \E i \in 1..Len(d) : d[i].k = key

DictGet(d, key) == d[CHOOSE i \in 1..Len(d) : d[i].k = key].v

\* d[key] = val: an existing key keeps its position
DictSet(d, key, val) ==
  IF DictHas(d, key)
  THEN [i \in 1..Len(d) |-> IF d[i].k = key THEN [k |-> key, v |-> val] ELSE d[i]]
  ELSE Append(d, [k |-> key, v |-> val])

\* del d[key]
DictDel(d, key) ==
  LET HasOther(item) == item.k # key IN SelectSeq(d, HasOther)

\* str(n) for an int n >= 0: its decimal digits
RECURSIVE IntToStr(_)
IntToStr(n) ==
  IF n < 10 THEN <<48 + n>> ELSE Append(IntToStr(n \div 10), 48 + (n % 10))

\* subject.replace('&', '\\&')
RECURSIVE EscapeAmp(_)
EscapeAmp(s) ==
  IF s = <<>> THEN <<>>
  ELSE (IF Head(s) = 38 THEN <<92, 38>> ELSE <<Head(s)>>) \o EscapeAmp(Tail(s))

\* sorted(list(a_set_of_str))
RECURSIVE SortedSet(_)
SortedSet(S) ==
  IF S = {} THEN <<>>
  ELSE LET m == CHOOSE e \in S : \A o \in S \ {e} : StrLess(e, o)
       IN  <<m>> \o SortedSet(S \ {m})

\* truthiness of an optional str: None and '' are falsy
Truthy(o) == o # None /\ Val(o) # <<>>

(***************************************************************************)
(* Pass 1: the aggregation of run_pass1                                    *)
(***************************************************************************)

\* the loop body with the subject key taken case-sensitively
AggregateEntry_CaseSensitive(all_subjects, entry) ==
  LET subj == Strip(entry.subject)
      withKey == IF DictHas(all_subjects, subj) THEN all_subjects
                 ELSE DictSet(all_subjects, subj,
                              [display |-> subj, subtopics |-> {}])
      old == DictGet(withKey, subj)
      added == {Strip(Lower(entry.subtopics[i])) :
                  i \in {j \in 1..Len(entry.subtopics) : entry.subtopics[j] # <<>>}}
  IN  IF subj = <<>> THEN all_subjects
      ELSE DictSet(withKey, subj, [old EXCEPT !.subtopics = @ \cup added])

\* the body of `for entry in result.get('subjects', [])`
AggregateEntry(all_subjects, entry) ==
  LET subj == Strip(entry.subject)
      subj_key == Lower(subj)
      withKey == IF DictHas(all_subjects, subj_key) THEN all_subjects
                 ELSE DictSet(all_subjects, subj_key,
                              [display |-> subj, subtopics |-> {}])
      old == DictGet(withKey, subj_key)
      added == {Strip(Lower(entry.subtopics[i])) :
                  i \in {j \in 1..Len(entry.subtopics) : entry.subtopics[j] # <<>>}}
  IN  IF subj = <<>> THEN all_subjects
      ELSE DictSet(withKey, subj_key, [old EXCEPT !.subtopics = @ \cup added])

RECURSIVE AggregateEntries(_, _)
AggregateEntries(all_subjects, entries) ==
  IF entries = <<>> THEN all_subjects
  ELSE AggregateEntries(AggregateEntry(all_subjects, Head(entries)), Tail(entries))

\* `for result in results`, from all_subjects = {}
RECURSIVE AggregateResults(_, _)
AggregateResults(all_subjects, results) ==
  IF results = <<>> THEN all_subjects
  ELSE AggregateResults(AggregateEntries(all_subjects, Head(results).subjects),
                        Tail(results))

\* the candidates list written to candidates.json
BuildCandidates(results) ==
  LET all_subjects == AggregateResults(<<>>, results)
      keys == SortedStrs(DictKeys(all_subjects))
  IN  [i \in 1..Len(keys) |->
         [subject |-> DictGet(all_subjects, keys[i]).display,
          subtopics |-> SortedSet(DictGet(all_subjects, keys[i]).subtopics),
          include |-> TRUE]]

(***************************************************************************)
(* Pass 2: build_final_index                                               *)
(***************************************************************************)

\* approved = [c for c in candidates if c.get('include', True)]
IsIncluded(c) == c.include

ApprovedOf(candidates) == SelectSeq(candidates, IsIncluded)

\* first loop: the first approved subject equal to the tag, ignoring case
ExactMatch(subject_lower, approved) ==
  LET hits == {i \in 1..Len(approved) : Lower(approved[i].subject) = subject_lower}
  IN  IF hits = {} THEN None
      ELSE Some(approved[CHOOSE i \in hits : \A j \in hits : i <= j].subject)

\* second loop: the first approved subject that contains the tag or is contained
PartialMatch(subject_lower, approved) ==
  LET hits == {i \in 1..Len(approved) :
                 \/ Contains(Lower(approved[i].subject), subject_lower)
                 \/ Contains(subject_lower, Lower(approved[i].subject))}
  IN  IF hits = {} THEN None
      ELSE Some(approved[CHOOSE i \in hits : \A j \in hits : i <= j].subject)

\* MatchSubject with the two loops in the wrong order: a partial match wins
MatchSubject_PartialFirst(subject, approved) ==
  LET subject_lower == Lower(subject)
      partial == PartialMatch(subject_lower, approved)
      exact == IF Truthy(partial) THEN partial ELSE ExactMatch(subject_lower, approved)
  IN  IF Truthy(exact) THEN exact ELSE None

\* matched_subject after both loops (None: the tag is skipped)
MatchSubject(subject, approved) ==
  LET subject_lower == Lower(subject)
      exact == ExactMatch(subject_lower, approved)
      partial == IF Truthy(exact) THEN exact ELSE PartialMatch(subject_lower, approved)
  IN  IF Truthy(partial) THEN partial ELSE None

\* the subtopic key taken as tagged, trimmed but not lowercased
SubtopicKey_AsTagged(subtopic) ==
  IF Truthy(subtopic) THEN Some(Strip(Val(subtopic))) ELSE None

\* subtopic.lower().strip() if subtopic else None
SubtopicKey(subtopic) ==
  IF Truthy(subtopic) THEN Some(Strip(Lower(Val(subtopic)))) ELSE None

\* the body of `for entry in result.get('entries', [])`
AccumulateEntry(index, chapter_num, entry, approved) ==
  LET subject == Strip(entry.subject)
      matched == MatchSubject(subject, approved)
      withSubject == IF DictHas(index, Val(matched)) THEN index
                     ELSE DictSet(index, Val(matched), <<>>)
      subs == DictGet(withSubject, Val(matched))
      subtopic_key == SubtopicKey(entry.subtopic)
      chapters == IF DictHas(subs, subtopic_key) THEN DictGet(subs, subtopic_key)
                  ELSE <<>>
  IN  IF subject = <<>> \/ matched = None THEN index
      ELSE DictSet(withSubject, Val(matched),
                   DictSet(subs, subtopic_key, AddOnce(chapters, chapter_num)))

RECURSIVE AccumulateEntries(_, _, _, _)
AccumulateEntries(index, chapter_num, entries, approved) ==
  IF entries = <<>> THEN index
  ELSE AccumulateEntries(AccumulateEntry(index, chapter_num, Head(entries), approved),
                         chapter_num, Tail(entries), approved)

\* `for result in results`, from index = {}
RECURSIVE AccumulateResults(_, _, _)
AccumulateResults(index, results, approved) ==
  IF results = <<>> THEN index
  ELSE AccumulateResults(
         AccumulateEntries(index, Head(results).chapter_num, Head(results).entries,
                           approved),
         Tail(results), approved)

\* whether the body of the loop raises AttributeError on the entry: entry.get of
\* a str, .strip() of a subject that is no str, or, once the subject has
\* resolved, .lower() of a truthy subtopic that is no str
EntryRaises(entry, approved) ==
  CASE entry.shape \in {"str", "key"} -> TRUE
    [] entry.shape = "subject_number" -> TRUE
    [] entry.shape = "subtopic_number" ->
         /\ Strip(entry.subject) # <<>>
         /\ MatchSubject(Strip(entry.subject), approved) # None
    [] OTHER -> FALSE

\* whether the first loop of build_final_index ends in an uncaught exception
BuildRaises(results, approved) ==
  \E i \in 1..Len(results) :
    \E j \in 1..Len(results[i].entries) :
      EntryRaises(results[i].entries[j], approved)

\* keep_combined: 'fields and forces', 'formalism & notation', 'error and bias'
keep_combined ==
  << <<102, 105, 101, 108, 100, 115, 32, 97, 110, 100, 32, 102, 111, 114, 99, 101, 115>>,
     <<102, 111, 114, 109, 97, 108, 105, 115, 109, 32, 38, 32, 110, 111, 116, 97, 116, 105, 111, 110>>,
     <<101, 114, 114, 111, 114, 32, 97, 110, 100, 32, 98, 105, 97, 115>> >>

\* the literal ' and '
AND_SEPARATOR == <<32, 97, 110, 100, 32>>

\* subtopic_key.lower() in [k.lower() for k in keep_combined]
IsKeptCombined(key) ==
  \E i \in 1..Len(keep_combined) : Lower(keep_combined[i]) = Lower(key)

\* parts = [p.strip() for p in subtopic_key.split(' and ')]
SplitParts(key) ==
  LET raw == Split(key, AND_SEPARATOR) IN [i \in 1..Len(raw) |-> Strip(raw[i])]

\* new_subtopics[key] gets every chapter of `chapters`, held already or not
MergeInto_Extend(d, key, chapters) ==
  DictSet(d, key, (IF DictHas(d, key) THEN DictGet(d, key) ELSE <<>>) \o chapters)

\* new_subtopics[key] gets every chapter of `chapters` it does not hold yet
MergeInto(d, key, chapters) ==
  DictSet(d, key, AddAllOnce(IF DictHas(d, key) THEN DictGet(d, key) ELSE <<>>,
                             chapters))

RECURSIVE MergeParts(_, _, _)
MergeParts(d, parts, chapters) ==
  IF parts = <<>> THEN d
  ELSE MergeParts(MergeInto(d, Some(Head(parts)), chapters), Tail(parts), chapters)

\* NormalizeItem without `del subtopics[subtopic_key]`
NormalizeItem_NoDelete(st, item) ==
  IF Truthy(item.k) /\ IsKeptCombined(Val(item.k))
  THEN [st EXCEPT !.new_subtopics = MergeInto(@, item.k, item.v)]
  ELSE IF Truthy(item.k) /\ Contains(Val(item.k), AND_SEPARATOR)
  THEN [st EXCEPT !.new_subtopics = MergeParts(@, SplitParts(Val(item.k)), item.v)]
  ELSE [st EXCEPT !.new_subtopics = MergeInto(@, item.k, item.v)]

\* one iteration of `for subtopic_key, chapters in list(subtopics.items())`;
\* st = [subtopics, new_subtopics]
NormalizeItem(st, item) ==
  IF Truthy(item.k) /\ IsKeptCombined(Val(item.k))
  THEN [st EXCEPT !.new_subtopics = MergeInto(@, item.k, item.v)]
  ELSE IF Truthy(item.k) /\ Contains(Val(item.k), AND_SEPARATOR)
  THEN [subtopics |-> DictDel(st.subtopics, item.k),
        new_subtopics |-> MergeParts(st.new_subtopics, SplitParts(Val(item.k)), item.v)]
  ELSE [st EXCEPT !.new_subtopics = MergeInto(@, item.k, item.v)]

RECURSIVE NormalizeItems(_, _)
NormalizeItems(st, items) ==
  IF items = <<>> THEN st
  ELSE NormalizeItems(NormalizeItem(st, Head(items)), Tail(items))

\* `for k, v in new_subtopics.items()`: merge new subtopics back
RECURSIVE MergeBack(_, _)
MergeBack(subtopics, new_items) ==
  IF new_items = <<>> THEN subtopics
  ELSE MergeBack(MergeInto(subtopics, Head(new_items).k, Head(new_items).v),
                 Tail(new_items))

\* the post-processing of one subject's subtopics
NormalizeSubject(subtopics) ==
  LET st == NormalizeItems([subtopics |-> subtopics, new_subtopics |-> <<>>],
                           subtopics)
  IN  MergeBack(st.subtopics, st.new_subtopics)

\* `for subject in list(index.keys())`
NormalizeIndex(index) ==
  [i \in 1..Len(index) |-> [k |-> index[i].k, v |-> NormalizeSubject(index[i].v)]]

\* chapter_labels: for every \chapterwithsummaryfromfile[label]{dir} of main.tex,
\* the first result with that chapter_dir gets the label
RECURSIVE ChapterLabels(_, _, _)
ChapterLabels(labels, matches, results) ==
  IF matches = <<>> THEN labels
  ELSE LET hits == {i \in 1..Len(results) :
                      results[i].chapter_dir = Head(matches).chapter_dir}
           first == CHOOSE i \in hits : \A j \in hits : i <= j
       IN  ChapterLabels(
             IF hits = {} THEN labels
             ELSE DictSet(labels, results[first].chapter_num, Head(matches).label),
             Tail(matches), results)

(***************************************************************************)
(* Pass 2: generate_latex.  A line of the file is a record: kind names the *)
(* line's fixed text, text, subs and refs are what is formatted into it.   *)
(***************************************************************************)

Line(kind, text, subs, refs) ==
  [kind |-> kind, text |-> text, subs |-> subs, refs |-> refs]

Fixed(kind) == Line(kind, <<>>, <<>>, <<>>)

\* datetime.now().strftime('%Y-%m-%d %H:%M'): the clock, in seconds, cut to the minute
SECONDS_PER_MINUTE == 60

Strftime(now) == IntToStr(now \div SECONDS_PER_MINUTE)

\* the twelve lines generate_latex starts with
Preamble(now) ==
  << Fixed("comment_title"),
     Line("comment_generated_on", Strftime(now), <<>>, <<>>),
     Fixed("comment_method"),
     Fixed("blank"),
     Fixed("chapter_star"),
     Fixed("markboth"),
     Fixed("addcontentsline"),
     Fixed("blank"),
     Fixed("begin_multicols"),
     Fixed("small"),
     Fixed("setlength_parskip"),
     Fixed("blank") >>

Trailer == << Fixed("blank"), Fixed("end_multicols"), Fixed("blank") >>

\* \pageref{label} if ch in chapter_labels else str(ch)
Ref(ch, chapter_labels) ==
  IF DictHas(chapter_labels, ch)
  THEN [pageref |-> TRUE, text |-> DictGet(chapter_labels, ch)]
  ELSE [pageref |-> FALSE, text |-> IntToStr(ch)]

\* refs for `for ch in sorted(chapters)`
Refs(chapters, chapter_labels) ==
  LET sorted == SortedInts(chapters)
  IN  [i \in 1..Len(sorted) |-> Ref(sorted[i], chapter_labels)]

\* named_subtopics = {k: v for k, v in subtopics.items() if k is not None}
IsNamed(item) == item.k # None

NamedSubtopics(subtopics) ==
  LET named == SelectSeq(subtopics, IsNamed)
  IN  [i \in 1..Len(named) |-> [k |-> Val(named[i].k), v |-> named[i].v]]

\* subtopics grouped by how many chapters they have, not by which
RECURSIVE ChapterToSubtopics_ByCount(_, _)
ChapterToSubtopics_ByCount(groups, named) ==
  IF named = <<>> THEN groups
  ELSE LET key == <<Len(Head(named).v)>>
           old == IF DictHas(groups, key) THEN DictGet(groups, key) ELSE <<>>
       IN  ChapterToSubtopics_ByCount(DictSet(groups, key, Append(old, Head(named).k)),
                                      Tail(named))

\* chapter_to_subtopics: tuple(sorted(chapters)) -> [subtopic, ...]
RECURSIVE ChapterToSubtopics(_, _)
ChapterToSubtopics(groups, named) ==
  IF named = <<>> THEN groups
  ELSE LET key == SortedInts(Head(named).v)
           old == IF DictHas(groups, key) THEN DictGet(groups, key) ELSE <<>>
       IN  ChapterToSubtopics(DictSet(groups, key, Append(old, Head(named).k)),
                              Tail(named))

\* all_chapters: the union of the chapters of every subtopic, None included
RECURSIVE AllChapters(_)
AllChapters(subtopics) ==
  IF subtopics = <<>> THEN {}
  ELSE Range(Head(subtopics).v) \cup AllChapters(Tail(subtopics))

RECURSIVE SetToSortedInts(_)
SetToSortedInts(S) ==
  IF S = {} THEN <<>>
  ELSE LET m == CHOOSE e \in S : \A o \in S : e <= o
       IN  <<m>> \o SetToSortedInts(S \ {m})

\* the lines of one subject, were the hierarchy shown whenever it has subtopics
SubjectLines_Hierarchical(subject, subtopics, chapter_labels) ==
  LET named == NamedSubtopics(subtopics)
      subject_escaped == EscapeAmp(subject)
      keys == SortedStrs(DictKeys(named))
  IN  IF named # <<>>
      THEN << Line("subject_alone", subject_escaped, <<>>, <<>>) >>
           \o [i \in 1..Len(keys) |->
                 Line("subtopic", keys[i], <<>>,
                      Refs(DictGet(named, keys[i]), chapter_labels))]
      ELSE << Line("subject_refs", subject_escaped, <<>>,
                   Refs(SetToSortedInts(AllChapters(subtopics)), chapter_labels)) >>

\* the lines of one subject
SubjectLines(subject, subtopics, chapter_labels) ==
  LET named == NamedSubtopics(subtopics)
      subject_escaped == EscapeAmp(subject)
      groups == ChapterToSubtopics(<<>>, named)
      keys == SortedStrs(DictKeys(named))
  IN  IF named # <<>>
      THEN IF Len(groups) = 1
           THEN << Line("subject_merged", subject_escaped, SortedStrs(groups[1].v),
                        Refs(groups[1].k, chapter_labels)) >>
           ELSE << Line("subject_alone", subject_escaped, <<>>, <<>>) >>
                \o [i \in 1..Len(keys) |->
                      Line("subtopic", keys[i], <<>>,
                           Refs(DictGet(named, keys[i]), chapter_labels))]
      ELSE << Line("subject_refs", subject_escaped, <<>>,
                   Refs(SetToSortedInts(AllChapters(subtopics)), chapter_labels)) >>

\* first_letter = subject[0].upper() if subject else '?'
FirstLetter(subject) == IF subject # <<>> THEN <<UpperChar(subject[1])>> ELSE <<63>>

\* sorted(index.keys(), key=lambda x: x.lower())
SortedSubjects(index) ==
  LET keys == DictKeys(index)
  IN  SortedByKey(keys, [i \in 1..Len(keys) |-> Lower(keys[i])])

\* `for subject in sorted_subjects`, current_letter being None or the last letter
RECURSIVE BodyLines(_, _, _, _)
BodyLines(subjects, current_letter, index, chapter_labels) ==
  IF subjects = <<>> THEN <<>>
  ELSE LET subject == Head(subjects)
           first_letter == FirstLetter(subject)
           header == IF Some(first_letter) # current_letter
                     THEN (IF current_letter # None THEN <<Fixed("blank")>> ELSE <<>>)
                          \o <<Line("letter", first_letter, <<>>, <<>>)>>
                     ELSE <<>>
       IN  header
           \o SubjectLines(subject, DictGet(index, subject), chapter_labels)
           \o BodyLines(Tail(subjects), Some(first_letter), index, chapter_labels)

\* the lines written to subject_index_new.tex
generate_latex(index, chapter_labels, now) ==
  Preamble(now) \o BodyLines(SortedSubjects(index), None, index, chapter_labels)
  \o Trailer

(***************************************************************************)
(* The str values the inputs are drawn from                                *)
(***************************************************************************)

\* 'Gravity'
Gravity == <<71, 114, 97, 118, 105, 116, 121>>

\* 'gravity'
s_gravity == <<103, 114, 97, 118, 105, 116, 121>>

\* 'GRAVITY'
S_GRAVITY == <<71, 82, 65, 86, 73, 84, 89>>

\* ' gravity '
s_gravity_padded == <<32, 103, 114, 97, 118, 105, 116, 121, 32>>

\* 'Field'
Field == <<70, 105, 101, 108, 100>>

\* 'field'
s_field == <<102, 105, 101, 108, 100>>

\* 'Field theory'
Field_theory == <<70, 105, 101, 108, 100, 32, 116, 104, 101, 111, 114, 121>>

\* 'Field t'
Field_t == <<70, 105, 101, 108, 100, 32, 116>>

\* 'quantum field'
quantum_field == <<113, 117, 97, 110, 116, 117, 109, 32, 102, 105, 101, 108, 100>>

\* 'Apple'
Apple == <<65, 112, 112, 108, 101>>

\* 'apple'
s_apple == <<97, 112, 112, 108, 101>>

\* 'apple pie'
apple_pie == <<97, 112, 112, 108, 101, 32, 112, 105, 101>>

\* 'Banana'
Banana == <<66, 97, 110, 97, 110, 97>>

\* 'BANANA'
S_BANANA == <<66, 65, 78, 65, 78, 65>>

\* 'Tides'
Tides == <<84, 105, 100, 101, 115>>

\* 'tides'
s_tides == <<116, 105, 100, 101, 115>>

\* ' Tides '
Tides_padded == <<32, 84, 105, 100, 101, 115, 32>>

\* 'orbits'
s_orbits == <<111, 114, 98, 105, 116, 115>>

\* 'x'
s_x == <<120>>

\* 'y'
s_y == <<121>>

\* 'x and y'
x_and_y == <<120, 32, 97, 110, 100, 32, 121>>

\* 'x and y and x'
x_and_y_and_x == <<120, 32, 97, 110, 100, 32, 121, 32, 97, 110, 100, 32, 120>>

\* 'Fields And Forces'
Fields_And_Forces == <<70, 105, 101, 108, 100, 115, 32, 65, 110, 100, 32, 70, 111, 114, 99, 101, 115>>

\* 'error and bias'
s_error_and_bias == <<101, 114, 114, 111, 114, 32, 97, 110, 100, 32, 98, 105, 97, 115>>

\* 'R&D'
R_and_D == <<82, 38, 68>>

\* U+00B5 (micro sign) followed by '-metal'
micro_metal == <<181, 45, 109, 101, 116, 97, 108>>

\* U+03B1 (Greek alpha) followed by ' decay'
alpha_decay == <<945, 32, 100, 101, 99, 97, 121>>

\* U+03BC (Greek mu) followed by ' meson'
mu_meson == <<956, 32, 109, 101, 115, 111, 110>>

\* 'ch:one'
label_one == <<99, 104, 58, 111, 110, 101>>

\* '99_other'
dir_99 == <<57, 57, 95, 111, 116, 104, 101, 114>>

(***************************************************************************)
(* Bounds and inputs                                                       *)
(***************************************************************************)

\* chapter directories found by get_chapter_directories
NumChapters == 2

\* how often the wall clock is advanced between two renderings
MaxTicks == 1

Chapters == 1..NumChapters

\* the directory of chapter i: 'NN_ch'
ChapterDir(i) == <<48 + (i \div 10), 48 + (i % 10), 95, 99, 104>>

\* what model.generate_content does for one prompt: it raises, or it returns
\* text; the text is fenced in ``` or not and holds a JSON document or not
Raises == [raises |-> TRUE, fenced |-> FALSE, json |-> None]

NotJson == [raises |-> FALSE, fenced |-> FALSE, json |-> None]

Json(doc) == [raises |-> FALSE, fenced |-> FALSE, json |-> Some(doc)]

FencedJson(doc) == [raises |-> FALSE, fenced |-> TRUE, json |-> Some(doc)]

Subj(subject, subtopics) == [subject |-> subject, subtopics |-> subtopics]

\* one element of the `entries` the Pass-2 loop iterates, by its JSON shape:
\* "object" is {"subject": <str>, "subtopic": <str or null>}
Tag(subject, subtopic) ==
  [shape |-> "object", subject |-> subject, subtopic |-> subtopic]

\* an array element that is a JSON string
JsonString == [shape |-> "str", subject |-> <<>>, subtopic |-> None]

\* a JSON object in place of the array: iterating it yields its keys, which are
\* strings, and nothing else of it is read
JsonObject(keys) ==
  [i \in 1..keys |-> [shape |-> "key", subject |-> <<>>, subtopic |-> None]]

\* {"subject": <number>, "subtopic": null}
TagSubjectNumber == [shape |-> "subject_number", subject |-> <<>>, subtopic |-> None]

\* {"subject": <str>, "subtopic": <non-zero number>}
TagSubtopicNumber(subject) ==
  [shape |-> "subtopic_number", subject |-> subject, subtopic |-> None]

Cand(subject, include) == [subject |-> subject, subtopics |-> <<>>, include |-> include]

\* Pass-1 responses of one chapter
Pass1Responses ==
  { Raises,
    NotJson,
    Json([subjects |-> << Subj(Gravity, <<Tides, <<>>, s_tides>>),
                          Subj(s_gravity_padded, <<s_orbits>>),
                          Subj(<<>>, <<s_x>>) >>]),
    Json([subjects |-> << Subj(S_GRAVITY, <<s_orbits, Tides_padded>>),
                          Subj(Apple, <<>>) >>]),
    FencedJson([subjects |-> << Subj(s_apple, <<s_x>>),
                                Subj(<<32, 32>>, <<s_y>>) >>]) }

\* candidates.json as edited by hand after consolidation, before pass2
CandidateFiles ==
  { << Cand(Field_theory, TRUE), Cand(Field, TRUE), Cand(Gravity, TRUE),
       Cand(Tides, FALSE) >>,
    << Cand(Apple, TRUE), Cand(Banana, TRUE), Cand(apple_pie, TRUE),
       Cand(R_and_D, TRUE), Cand(micro_metal, TRUE), Cand(alpha_decay, TRUE),
       Cand(mu_meson, TRUE) >>,
    << Cand(s_gravity, TRUE), Cand(Gravity, TRUE) >> }

\* candidates.json with every subject struck out (include: false)
NothingApproved == { << Cand(Tides, FALSE) >> }

\* the \chapterwithsummaryfromfile[label]{dir} lines of main.tex
MainTexFiles ==
  { <<>>,
    << [label |-> label_one, chapter_dir |-> ChapterDir(1)],
       [label |-> label_one, chapter_dir |-> dir_99] >> }

\* Pass-2 responses of one chapter
Pass2Responses ==
  { Raises,
    NotJson,
    Json(<< Tag(Gravity, None), Tag(Gravity, Some(s_tides)) >>),
    FencedJson(<< Tag(Gravity, Some(s_tides)) >>),
    Json(<< Tag(s_field, Some(Fields_And_Forces)), Tag(quantum_field, Some(x_and_y)),
            Tag(s_gravity_padded, Some(s_x)), Tag(<<>>, Some(s_tides)),
            Tag(Tides, None), Tag(R_and_D, Some(<<>>)) >>),
    Json(<< Tag(Field_t, Some(x_and_y_and_x)), Tag(Gravity, Some(s_y)),
            Tag(Apple, None), Tag(Apple, Some(s_x)),
            Tag(apple_pie, Some(Tides_padded)), Tag(S_BANANA, Some(s_x)) >>),
    Json(<< Tag(s_apple, Some(x_and_y)), Tag(Banana, None),
            Tag(S_BANANA, Some(Fields_And_Forces)),
            Tag(apple_pie, None), Tag(Gravity, Some(s_error_and_bias)),
            Tag(Gravity, Some(s_tides)), Tag(mu_meson, None),
            Tag(micro_metal, None), Tag(alpha_decay, Some(s_x)) >>),
    Json(JsonObject(1)),
    Json(<< Tag(Gravity, Some(s_tides)), JsonString >>),
    Json(<< TagSubjectNumber, Tag(Apple, None) >>),
    Json(<< Tag(Apple, Some(s_y)), TagSubtopicNumber(Gravity) >>) }

\* batch_size of the consolidator
batch_size == 150

\* `item.get('subtopics', [])[:8]`
MAX_SUBTOPICS == 8

Cons(subject, subtopics) ==
  [subject |-> subject, subtopics |-> subtopics, merged_from |-> <<>>]

\* candidates.json with n entries, as the consolidator reads it
CandidatesOfSize(n) == [i \in 1..n |-> Cand(IntToStr(i), TRUE)]

ConsolidatorCandidateFiles ==
  {CandidatesOfSize(n) : n \in {1, batch_size, batch_size + 1, 2 * batch_size + 1}}

\* consolidator responses of one batch
BatchResponses ==
  { Raises,
    NotJson,
    Json([consolidated |-> << Cons(Gravity, <<s_tides, s_orbits>>),
                              Cons(Apple, <<>>) >>,
          removed |-> <<Tides>>]),
    FencedJson([consolidated |-> << Cons(s_gravity_padded, <<Tides, s_tides>>),
                                    Cons(Banana, <<s_x>>) >>,
                removed |-> <<Tides, s_x>>]) }

(***************************************************************************)
(* The model call and the three per-task handlers                          *)
(***************************************************************************)

\* re.sub(r'^```json?\n?', '', text) and re.sub(r'\n?```$', '', text), applied
\* when the text starts with ```
StripFence(response) ==
  IF response.fenced THEN [response EXCEPT !.fenced = FALSE] ELSE response

\* json.loads: None stands for JSONDecodeError
JsonLoads(response) ==
  IF response.fenced \/ response.json = None THEN None ELSE response.json

\* the try block: the awaited call, the fence clean-up and json.loads
TryParse(response) ==
  IF response.raises THEN [error |-> Some("call raised"), data |-> None]
  ELSE LET data == JsonLoads(StripFence(response))
       IN  IF data = None THEN [error |-> Some("JSONDecodeError"), data |-> None]
           ELSE [error |-> None, data |-> data]

\* the dict extract_candidates_for_chapter returns
Pass1Record(chapter_num, response) ==
  LET got == TryParse(response)
  IN  [chapter_num |-> chapter_num,
       chapter_dir |-> ChapterDir(chapter_num),
       subjects |-> IF got.error = None THEN Val(got.data).subjects ELSE <<>>,
       error |-> got.error]

\* classify_chapter with the failure left out of the returned dict
Pass2Record_NoError(chapter_num, response) ==
  LET got == TryParse(response)
  IN  [chapter_num |-> chapter_num,
       chapter_dir |-> ChapterDir(chapter_num),
       entries |-> IF got.error = None THEN Val(got.data) ELSE <<>>,
       error |-> None]

\* the dict classify_chapter returns
Pass2Record(chapter_num, response) ==
  LET got == TryParse(response)
  IN  [chapter_num |-> chapter_num,
       chapter_dir |-> ChapterDir(chapter_num),
       entries |-> IF got.error = None THEN Val(got.data) ELSE <<>>,
       error |-> got.error]

\* the dict consolidate_batch returns
BatchResult(response) ==
  LET got == TryParse(response)
  IN  IF got.error = None THEN Val(got.data)
      ELSE [consolidated |-> <<>>, removed |-> <<>>]

(***************************************************************************)
(* After the gather: sorting, build_final_index, the consolidator's merge  *)
(***************************************************************************)

\* the gathered results handed on in the reverse of task order
SortByChapterNum_Reversed(results) ==
  [i \in 1..Len(results) |-> results[Len(results) + 1 - i]]

\* results.sort(key=lambda x: x['chapter_num'])
SortByChapterNum(results) ==
  SortedByKey(results, [i \in 1..Len(results) |-> <<results[i].chapter_num>>])

\* str(sk) of a subtopic key: 'None' for None
StrKey(key) == IF key = None THEN <<78, 111, 110, 101>> ELSE Val(key)

\* json.dump(serializable, sort_keys=True) of final_index.json
SerializeSubtopics(subtopics) ==
  LET items == [i \in 1..Len(subtopics) |->
                  [k |-> StrKey(subtopics[i].k), v |-> subtopics[i].v]]
  IN  SortedByKey(items, DictKeys(items))

SerializeIndex(index) ==
  LET items == [i \in 1..Len(index) |->
                  [k |-> index[i].k, v |-> SerializeSubtopics(index[i].v)]]
  IN  SortedByKey(items, DictKeys(items))

\* build_final_index: what it computes and writes, `accumulated` being the index
\* when the first loop ends
build_final_index(results, approved, main_tex, now) ==
  LET chapter_labels == ChapterLabels(<<>>, main_tex, results)
      accumulated == AccumulateResults(<<>>, results, approved)
      index == NormalizeIndex(accumulated)
  IN  [chapter_labels |-> chapter_labels,
       accumulated |-> accumulated,
       index |-> index,
       final_index_json |-> SerializeIndex(index),
       latex |-> generate_latex(index, chapter_labels, now)]

\* batches = [candidates[i:i+batch_size] for i in range(0, len(candidates), batch_size)]
Batches(candidates) ==
  [b \in 1..((Len(candidates) + batch_size - 1) \div batch_size) |->
     SubSeq(candidates, (b - 1) * batch_size + 1,
            IF b * batch_size < Len(candidates) THEN b * batch_size
            ELSE Len(candidates))]

\* all_consolidated and all_removed
RECURSIVE AllConsolidated(_)
AllConsolidated(results) ==
  IF results = <<>> THEN <<>>
  ELSE Head(results).consolidated \o AllConsolidated(Tail(results))

RECURSIVE AllRemoved(_)
AllRemoved(results) ==
  IF results = <<>> THEN <<>>
  ELSE Head(results).removed \o AllRemoved(Tail(results))

\* list(a_set): the elements in some order
ListsOfSet(S) == {p \in [1..Cardinality(S) -> S] : Range(p) = S}

\* item['subject'].lower().strip()
ConsolidatedKey(item) == Strip(Lower(item.subject))

\* one iteration of `for item in all_consolidated`: every final_consolidated it
\* can leave, list(existing_subtopics | new_subtopics) being in any order
DedupeItem(final_consolidated, item) ==
  LET same == {j \in 1..Len(final_consolidated) :
                 ConsolidatedKey(final_consolidated[j]) = ConsolidatedKey(item)}
      j == CHOOSE e \in same : TRUE
      union == Range(final_consolidated[j].subtopics) \cup Range(item.subtopics)
  IN  IF same = {} THEN {Append(final_consolidated, item)}
      ELSE {[final_consolidated EXCEPT ![j].subtopics = order] :
              order \in ListsOfSet(union)}

RECURSIVE DedupeItems(_, _)
DedupeItems(finals, items) ==
  IF items = <<>> THEN finals
  ELSE DedupeItems(UNION {DedupeItem(f, Head(items)) : f \in finals}, Tail(items))

\* final_for_pass2, from one final_consolidated
FinalForPass2(final_consolidated) ==
  LET sorted == SortedByKey(final_consolidated,
                            [i \in 1..Len(final_consolidated) |->
                               Lower(final_consolidated[i].subject)])
  IN  [i \in 1..Len(sorted) |->
         [subject |-> sorted[i].subject,
          subtopics |-> SubSeq(sorted[i].subtopics, 1,
                               IF Len(sorted[i].subtopics) < MAX_SUBTOPICS
                               THEN Len(sorted[i].subtopics) ELSE MAX_SUBTOPICS),
          include |-> TRUE]]

\* every candidates_consolidated.json a run with these batch results can write
ConsolidatedOutcomes(results) ==
  {FinalForPass2(f) : f \in DedupeItems({<<>>}, AllConsolidated(results))}

\* sorted(set(all_removed)), written to subjects_removed.json
RemovedOutcome(results) == SortedSet(Range(AllRemoved(results)))

\* pass2_raw_results.json as an earlier pass2 left it
SavedRawResults ==
  [c \in Chapters |->
     Pass2Record(c, IF c = 1
                    THEN Json(<< Tag(Gravity, None), Tag(Gravity, Some(s_tides)) >>)
                    ELSE Json(<< Tag(Gravity, Some(s_tides)) >>))]

\* pass2_raw_results.json as a pass2 that ended in the traceback left it
SavedRawResultsOfCrash ==
  [c \in Chapters |->
     Pass2Record(c, IF c = 1
                    THEN Json(<< Tag(Gravity, Some(s_tides)), JsonString >>)
                    ELSE Json(<< Tag(Gravity, Some(s_tides)) >>))]

(***************************************************************************)
(* State                                                                   *)
(***************************************************************************)

VARIABLES
  cmd,               \* the command run: "pass1", "pass2", "regenerate" or
                     \* "consolidate"
  apiKey,            \* whether GEMINI_API_KEY or GOOGLE_API_KEY is set
  exitCode,          \* None while the process runs, else Some(its exit code)
  message,           \* how an abort was reported: "", "explained" (the code's own
                     \* ERROR line) or "traceback" (an exception nobody caught)
  candidatesFile,    \* candidates.json: None while absent, else Some(list)
  mainTex,           \* the chapter lines of main.tex
  response,          \* response[i]: what the model call of task i does
  pc,                \* pc[i]: "pending", "awaiting" (call issued) or "done"
  calls,             \* calls[i]: model calls issued for task i
  taskResult,        \* taskResult[i]: None, or Some(the dict task i returned)
  completed,         \* completed[0] of run_pass2
  log,               \* what the tasks printed, in print order
  phase,             \* "starting", "running", "done", "regenerated", "aborted"
  rawFile,           \* pass1_raw_results.json / pass2_raw_results.json
  built,             \* what the last build_final_index computed, or None
  finalIndexFile,    \* final_index.json
  latexFile,         \* subject_index_new.tex
  prevBuilt,         \* what build_final_index computed the time before the last
  clock,             \* the wall clock, in seconds
  ticks,             \* how often the clock was advanced
  consolidatedFile,  \* candidates_consolidated.json
  removedFile        \* subjects_removed.json

vars ==
  << cmd, apiKey, exitCode, message, candidatesFile, mainTex, response, pc, calls, taskResult, completed, log,
     phase, rawFile, built, finalIndexFile, latexFile, prevBuilt, clock, ticks,
     consolidatedFile, removedFile >>

Tasks == 1..Len(pc)

AllDone == \A i \in Tasks : pc[i] = "done"

\* asyncio.gather(*tasks): the results in task order
Gather == [i \in Tasks |-> Val(taskResult[i])]

StartTasks(n) ==
  /\ pc = [i \in 1..n |-> "pending"]
  /\ calls = [i \in 1..n |-> 0]
  /\ taskResult = [i \in 1..n |-> None]
  /\ completed = 0
  /\ log = <<>>
  /\ phase = "starting"
  /\ exitCode = None
  /\ message = ""
  /\ built = None
  /\ finalIndexFile = None
  /\ latexFile = None
  /\ prevBuilt = None
  /\ clock = 0
  /\ ticks = 0
  /\ consolidatedFile = None
  /\ removedFile = None

\* the responses of a run that never reaches its calls are left unread
Unread(n) == [i \in 1..n |-> Raises]

InitPass1 ==
  /\ cmd = "pass1"
  /\ apiKey \in BOOLEAN
  /\ candidatesFile = None
  /\ rawFile = None
  /\ mainTex = <<>>
  /\ response \in IF apiKey THEN [Chapters -> Pass1Responses]
                  ELSE {Unread(NumChapters)}
  /\ StartTasks(NumChapters)

InitPass2 ==
  /\ cmd = "pass2"
  /\ apiKey \in BOOLEAN
  /\ candidatesFile \in {None} \cup {Some(c) : c \in CandidateFiles \cup NothingApproved}
  /\ rawFile = None
  /\ mainTex \in MainTexFiles
  /\ response \in IF apiKey /\ candidatesFile \in {Some(c) : c \in CandidateFiles}
                  THEN [Chapters -> Pass2Responses]
                  ELSE {Unread(NumChapters)}
  /\ StartTasks(NumChapters)

\* `regenerate` on its own, on the files an earlier pass2 left or did not leave
InitRegenerate ==
  /\ cmd = "regenerate"
  /\ apiKey \in BOOLEAN
  /\ candidatesFile \in {None} \cup {Some(c) : c \in CandidateFiles}
  /\ rawFile \in {None, Some(SavedRawResults), Some(SavedRawResultsOfCrash)}
  /\ mainTex \in MainTexFiles
  /\ response = <<>>
  /\ StartTasks(0)

InitConsolidate ==
  /\ cmd = "consolidate"
  /\ apiKey \in BOOLEAN
  /\ candidatesFile \in {None} \cup {Some(c) : c \in ConsolidatorCandidateFiles}
  /\ rawFile = None
  /\ mainTex = <<>>
  /\ \E n \in {IF candidatesFile = None THEN 0
                ELSE Len(Batches(Val(candidatesFile)))} :
       /\ response \in IF apiKey THEN [1..n -> BatchResponses] ELSE {Unread(n)}
       /\ StartTasks(n)

Init == InitPass1 \/ InitPass2 \/ InitRegenerate \/ InitConsolidate

(***************************************************************************)
(* Actions                                                                 *)
(***************************************************************************)

\* the process ends early with exit code 1, having reported it as `how`
Abort(how) ==
  /\ phase' = "aborted"
  /\ exitCode' = Some(1)
  /\ message' = how
  /\ UNCHANGED << cmd, apiKey, candidatesFile, mainTex, response, pc, calls,
                  taskResult, completed, log, rawFile, built, finalIndexFile,
                  latexFile, prevBuilt, clock, ticks, consolidatedFile, removedFile >>

\* the tasks are created and handed to asyncio.gather
Dispatch ==
  /\ phase' = "running"
  /\ UNCHANGED << cmd, apiKey, exitCode, message, candidatesFile, mainTex, response,
                  pc, calls, taskResult, completed, log, rawFile, built,
                  finalIndexFile, latexFile, prevBuilt, clock, ticks,
                  consolidatedFile, removedFile >>

\* run_pass1 up to the gather: get_api_key, then the tasks
run_pass1_start ==
  /\ cmd = "pass1"
  /\ phase = "starting"
  /\ IF ~apiKey THEN Abort("explained") ELSE Dispatch

\* run_pass2 up to the gather: candidates.json, the approved list, get_api_key
run_pass2_start ==
  /\ cmd = "pass2"
  /\ phase = "starting"
  /\ IF candidatesFile = None THEN Abort("explained")
     ELSE IF ApprovedOf(Val(candidatesFile)) = <<>> THEN Abort("explained")
     ELSE IF ~apiKey THEN Abort("explained")
     ELSE Dispatch

\* the consolidator's main up to the gather: the key is read and passed on
\* unchecked, candidates.json is opened unchecked
consolidate_main_start ==
  /\ cmd = "consolidate"
  /\ phase = "starting"
  /\ IF candidatesFile = None THEN Abort("traceback") ELSE Dispatch

\* await asyncio.to_thread(model.generate_content, prompt) of task i is issued
IssueCall(i) ==
  /\ phase = "running"
  /\ pc[i] = "pending"
  /\ pc' = [pc EXCEPT ![i] = "awaiting"]
  /\ calls' = [calls EXCEPT ![i] = @ + 1]
  /\ UNCHANGED << cmd, apiKey, exitCode, message,
                  candidatesFile, mainTex, response, taskResult, completed, log,
                  phase, rawFile, built, finalIndexFile, latexFile, prevBuilt,
                  clock, ticks, consolidatedFile, removedFile >>

\* the call of chapter i returns or raises: the task returns its dict
extract_candidates_for_chapter(i) ==
  /\ cmd = "pass1"
  /\ pc[i] = "awaiting"
  /\ LET record == Pass1Record(i, response[i])
     IN  /\ taskResult' = [taskResult EXCEPT ![i] = Some(record)]
         /\ log' = Append(log, [task |-> i,
                                level |-> IF record.error = None THEN "ok" ELSE "error"])
  /\ pc' = [pc EXCEPT ![i] = "done"]
  /\ UNCHANGED << cmd, apiKey, exitCode, message,
                  candidatesFile, mainTex, response, calls, completed, phase,
                  rawFile, built, finalIndexFile, latexFile, prevBuilt, clock,
                  ticks, consolidatedFile, removedFile >>

\* classify_with_progress, were the counter set rather than incremented
classify_with_progress_CounterSet(i) ==
  /\ cmd = "pass2"
  /\ pc[i] = "awaiting"
  /\ taskResult' = [taskResult EXCEPT ![i] = Some(Pass2Record(i, response[i]))]
  /\ completed' = 1
  /\ log' = Append(log, [task |-> i, level |-> "progress"])
  /\ pc' = [pc EXCEPT ![i] = "done"]
  /\ UNCHANGED << cmd, apiKey, exitCode, message,
                  candidatesFile, mainTex, response, calls, phase, rawFile,
                  built, finalIndexFile, latexFile, prevBuilt, clock, ticks,
                  consolidatedFile, removedFile >>

\* classify_chapter of chapter i ends; the progress counter and line follow
classify_with_progress(i) ==
  /\ cmd = "pass2"
  /\ pc[i] = "awaiting"
  /\ taskResult' = [taskResult EXCEPT ![i] = Some(Pass2Record(i, response[i]))]
  /\ completed' = completed + 1
  /\ log' = Append(log, [task |-> i, level |-> "progress"])
  /\ pc' = [pc EXCEPT ![i] = "done"]
  /\ UNCHANGED << cmd, apiKey, exitCode, message,
                  candidatesFile, mainTex, response, calls, phase, rawFile,
                  built, finalIndexFile, latexFile, prevBuilt, clock, ticks,
                  consolidatedFile, removedFile >>

\* consolidate_batch, were a failed batch dropped without a word
consolidate_batch_Silent(i) ==
  /\ cmd = "consolidate"
  /\ pc[i] = "awaiting"
  /\ taskResult' = [taskResult EXCEPT ![i] = Some(BatchResult(response[i]))]
  /\ pc' = [pc EXCEPT ![i] = "done"]
  /\ UNCHANGED << cmd, apiKey, exitCode, message,
                  candidatesFile, mainTex, response, calls, completed, log,
                  phase, rawFile, built, finalIndexFile, latexFile, prevBuilt, clock,
                  ticks, consolidatedFile, removedFile >>

\* the call of batch i returns or raises: the task returns its dict
consolidate_batch(i) ==
  /\ cmd = "consolidate"
  /\ pc[i] = "awaiting"
  /\ taskResult' = [taskResult EXCEPT ![i] = Some(BatchResult(response[i]))]
  /\ log' = IF TryParse(response[i]).error = None THEN log
            ELSE Append(log, [task |-> i, level |-> "error"])
  /\ pc' = [pc EXCEPT ![i] = "done"]
  /\ UNCHANGED << cmd, apiKey, exitCode, message,
                  candidatesFile, mainTex, response, calls, completed, phase,
                  rawFile, built, finalIndexFile, latexFile, prevBuilt, clock,
                  ticks, consolidatedFile, removedFile >>

\* run_pass1 after the gather: sort, pass1_raw_results.json, candidates.json
run_pass1 ==
  /\ cmd = "pass1"
  /\ phase = "running"
  /\ AllDone
  /\ LET results == SortByChapterNum(Gather)
     IN  /\ rawFile' = Some(results)
         /\ candidatesFile' = Some(BuildCandidates(results))
  /\ phase' = "done"
  /\ exitCode' = Some(0)
  /\ UNCHANGED << cmd, apiKey, message,
                  mainTex, response, pc, calls, taskResult, completed, log,
                  built, finalIndexFile, latexFile, prevBuilt, clock, ticks,
                  consolidatedFile, removedFile >>

\* the files build_final_index and generate_latex write
WriteIndex(b) ==
  /\ built' = Some(b)
  /\ finalIndexFile' = Some(b.final_index_json)
  /\ prevBuilt' = built
  /\ latexFile' = Some(b.latex)

\* run_pass2 after the gather: sort, pass2_raw_results.json, build_final_index;
\* an exception of build_final_index is caught nowhere and ends the process
run_pass2 ==
  /\ cmd = "pass2"
  /\ phase = "running"
  /\ AllDone
  /\ LET results == SortByChapterNum(Gather)
         approved == ApprovedOf(Val(candidatesFile))
     IN  /\ rawFile' = Some(results)
         /\ IF BuildRaises(results, approved)
            THEN /\ phase' = "aborted"
                 /\ exitCode' = Some(1)
                 /\ message' = "traceback"
                 /\ UNCHANGED << built, finalIndexFile, latexFile, prevBuilt >>
            ELSE /\ WriteIndex(build_final_index(results, approved, mainTex, clock))
                 /\ phase' = "done"
                 /\ exitCode' = Some(0)
                 /\ UNCHANGED message
  /\ UNCHANGED << cmd, apiKey, candidatesFile, mainTex, response, pc, calls,
                  taskResult, completed, log, clock, ticks, consolidatedFile,
                  removedFile >>

\* the `regenerate` command, run after pass2 or on its own: only
\* pass2_raw_results.json is looked for, candidates.json is opened unchecked
regenerate_latex ==
  /\ \/ cmd = "pass2" /\ phase = "done"
     \/ cmd = "regenerate" /\ phase = "starting"
  /\ IF rawFile = None THEN Abort("explained")
     ELSE IF candidatesFile = None THEN Abort("traceback")
     ELSE IF BuildRaises(Val(rawFile), ApprovedOf(Val(candidatesFile)))
     THEN Abort("traceback")
     ELSE /\ WriteIndex(build_final_index(Val(rawFile),
                                          ApprovedOf(Val(candidatesFile)),
                                          mainTex, clock))
          /\ phase' = "regenerated"
          /\ exitCode' = Some(0)
          /\ UNCHANGED << cmd, apiKey, message, candidatesFile, mainTex, response,
                          pc, calls, taskResult, completed, log, rawFile, clock,
                          ticks, consolidatedFile, removedFile >>

\* time passes between pass2 and regenerate: a second, or a minute
Tick ==
  /\ cmd = "pass2"
  /\ phase = "done"
  /\ ticks < MaxTicks
  /\ \E d \in {1, SECONDS_PER_MINUTE} : clock' = clock + d
  /\ ticks' = ticks + 1
  /\ UNCHANGED << cmd, apiKey, exitCode, message,
                  candidatesFile, mainTex, response, pc, calls, taskResult,
                  completed, log, phase, rawFile, built, finalIndexFile, latexFile,
                  prevBuilt, consolidatedFile, removedFile >>

\* the consolidator's main after the gather: merge, dedupe, the two files
consolidate_main ==
  /\ cmd = "consolidate"
  /\ phase = "running"
  /\ AllDone
  /\ consolidatedFile' \in {Some(c) : c \in ConsolidatedOutcomes(Gather)}
  /\ removedFile' = Some(RemovedOutcome(Gather))
  /\ phase' = "done"
  /\ exitCode' = Some(0)
  /\ UNCHANGED << cmd, apiKey, message,
                  candidatesFile, mainTex, response, pc, calls, taskResult,
                  completed, log, rawFile, built, finalIndexFile, latexFile,
                  prevBuilt, clock, ticks >>

Next ==
  \/ run_pass1_start
  \/ run_pass2_start
  \/ consolidate_main_start
  \/ \E i \in Tasks : IssueCall(i)
  \/ \E i \in Tasks : extract_candidates_for_chapter(i)
  \/ \E i \in Tasks : classify_with_progress(i)
  \/ \E i \in Tasks : consolidate_batch(i)
  \/ run_pass1
  \/ run_pass2
  \/ regenerate_latex
  \/ Tick
  \/ consolidate_main

Spec == Init /\ [][Next]_vars

(***************************************************************************)
(* What the claims speak about                                             *)
(***************************************************************************)

\* a model call that returned text holding a JSON document, fenced or not
Parsed(r) == ~r.raises /\ r.json # None

Pass2Done == cmd = "pass2" /\ phase \in {"done", "regenerated"}

\* the approved list and the tags of a finished pass2, from its inputs alone
ApprovedSubjects == ApprovedOf(Val(candidatesFile))

TagsOf(c) == IF Parsed(response[c]) THEN Val(response[c].json) ELSE <<>>

\* the tag's subject as build_final_index reads it: trimmed
TagSubject(tag) == Strip(tag.subject)

\* approved[i] equals the tag's subject, ignoring case
IsExactAt(tag, i) == Lower(ApprovedSubjects[i].subject) = Lower(TagSubject(tag))

\* approved[i] contains the tag's subject or is contained in it, ignoring case
IsSubstringAt(tag, i) ==
  \/ Contains(Lower(ApprovedSubjects[i].subject), Lower(TagSubject(tag)))
  \/ Contains(Lower(TagSubject(tag)), Lower(ApprovedSubjects[i].subject))

HasExact(tag) == \E i \in 1..Len(ApprovedSubjects) : IsExactAt(tag, i)

\* the one outcome of a tag: it resolves to approved[i]
ResolvesAt(tag, i) ==
  \/ /\ IsExactAt(tag, i)
     /\ \A j \in 1..(i - 1) : ~IsExactAt(tag, j)
  \/ /\ ~HasExact(tag)
     /\ IsSubstringAt(tag, i)
     /\ \A j \in 1..(i - 1) : ~IsSubstringAt(tag, j)

\* the subtopic key a tag is filed under
TagKey(tag) ==
  IF tag.subtopic = None \/ tag.subtopic = Some(<<>>) THEN None
  ELSE Some(Strip(Lower(Val(tag.subtopic))))

\* the chapters an index holds under (subject, key), as a set
ChaptersUnder(index, subject, key) ==
  IF DictHas(index, subject) /\ DictHas(DictGet(index, subject), key)
  THEN Range(DictGet(DictGet(index, subject), key))
  ELSE {}

\* the chapters with a non-empty-subject tag that resolves to `subject` under `key`
ChaptersTagged(subject, key) ==
  {c \in Chapters :
     \E t \in 1..Len(TagsOf(c)) :
       LET tag == TagsOf(c)[t]
       IN  /\ TagSubject(tag) # <<>>
           /\ TagKey(tag) = key
           /\ \E i \in 1..Len(ApprovedSubjects) :
                ResolvesAt(tag, i) /\ ApprovedSubjects[i].subject = subject}

\* every subtopic key some tag of the run is filed under
AllTagKeys ==
  UNION {{TagKey(TagsOf(c)[t]) : t \in 1..Len(TagsOf(c))} : c \in Chapters}

\* C1: every Pass-2 tag with a non-empty (trimmed) subject has exactly one
\* outcome: it resolves to the first approved subject equal to it ignoring case,
\* even when an earlier approved subject substring-matches; else to the first
\* approved subject, in list order, that contains it or is contained in it
\* ignoring case; else it is dropped and changes nothing.  So the index
\* accumulated by the first loop of build_final_index holds, under each subject
\* and subtopic key, exactly the chapters with a tag of that outcome.
C1_TagResolution ==
  Pass2Done =>
    LET accumulated == Val(built).accumulated
        keysOf(s) == IF DictHas(accumulated, s)
                     THEN Range(DictKeys(DictGet(accumulated, s))) ELSE {}
        subjects == Range(DictKeys(accumulated))
                      \cup {ApprovedSubjects[i].subject : i \in 1..Len(ApprovedSubjects)}
    IN  /\ \A c \in Chapters : \A t \in 1..Len(TagsOf(c)) :
             Cardinality({i \in 1..Len(ApprovedSubjects) :
                            ResolvesAt(TagsOf(c)[t], i)}) <= 1
        /\ \A s \in subjects :
             \A key \in keysOf(s) \cup AllTagKeys :
               /\ ChaptersUnder(accumulated, s, key) = ChaptersTagged(s, key)
               /\ key \in keysOf(s) => ChaptersTagged(s, key) # {}

\* C1's case: one finished run with a tag resolved to its exact match although an
\* earlier approved subject substring-matches it, a tag resolved to its first
\* substring match, and a tag that matched nothing and was dropped
C1_Witness ==
  /\ Pass2Done
  /\ \E c \in Chapters : \E t1, t2, t3 \in 1..Len(TagsOf(c)) :
       LET exact == TagsOf(c)[t1]
           partial == TagsOf(c)[t2]
           dropped == TagsOf(c)[t3]
       IN  /\ \E i, j \in 1..Len(ApprovedSubjects) :
                /\ j < i
                /\ IsSubstringAt(exact, j)
                /\ ResolvesAt(exact, i)
                /\ IsExactAt(exact, i)
                /\ c \in ChaptersUnder(Val(built).accumulated,
                                       ApprovedSubjects[i].subject, TagKey(exact))
           /\ ~HasExact(partial)
           /\ \E i \in 1..Len(ApprovedSubjects) :
                /\ ResolvesAt(partial, i)
                /\ c \in ChaptersUnder(Val(built).accumulated,
                                       ApprovedSubjects[i].subject, TagKey(partial))
           /\ TagSubject(dropped) # <<>>
           /\ \A i \in 1..Len(ApprovedSubjects) : ~ResolvesAt(dropped, i)

\* a non-null subtopic key that contains the literal ' and '
IsCombinedKey(key) == key # None /\ Contains(Val(key), AND_SEPARATOR)

\* a key that matches an allow-listed compound term, ignoring case
IsAllowListed(key) ==
  key # None /\ \E i \in 1..Len(keep_combined) : Lower(keep_combined[i]) = Lower(Val(key))

\* the trimmed parts of a combined key
PartsOf(key) ==
  {Strip(Split(Val(key), AND_SEPARATOR)[i]) :
     i \in 1..Len(Split(Val(key), AND_SEPARATOR))}

\* C2: in the normalization pass of build_final_index every non-null subtopic
\* key that contains ' and ' and is not allow-listed is replaced by its trimmed
\* parts: each part is a key of the same subject afterwards, holding every
\* chapter of the combined key and every chapter the part held before; the
\* combined key is gone; no part is split further.  An allow-listed key is kept
\* unsplit with its chapters unchanged.
C2_SplitCombined ==
  Pass2Done =>
    LET before == Val(built).accumulated
        after == Val(built).index
    IN  \A s \in Range(DictKeys(before)) :
          LET b == DictGet(before, s)
              a == DictGet(after, s)
          IN  \A n \in 1..Len(b) :
                /\ (IsCombinedKey(b[n].k) /\ ~IsAllowListed(b[n].k)) =>
                     /\ ~DictHas(a, b[n].k)
                     /\ \A p \in PartsOf(b[n].k) :
                          /\ DictHas(a, Some(p))
                          /\ ~Contains(p, AND_SEPARATOR)
                          /\ Range(b[n].v) \subseteq Range(DictGet(a, Some(p)))
                          /\ DictHas(b, Some(p)) =>
                               Range(DictGet(b, Some(p)))
                                 \subseteq Range(DictGet(a, Some(p)))
                /\ IsAllowListed(b[n].k) =>
                     /\ DictHas(a, b[n].k)
                     /\ DictGet(a, b[n].k) = b[n].v

\* C2's case: a finished run in which a combined key was split into parts, one
\* of which already held a chapter the combined key did not, and in which an
\* allow-listed key with ' and ' was tagged
C2_Witness ==
  /\ Pass2Done
  /\ \E s \in Range(DictKeys(Val(built).accumulated)) :
       LET b == DictGet(Val(built).accumulated, s)
       IN  \E n \in 1..Len(b) :
             /\ IsCombinedKey(b[n].k)
             /\ ~IsAllowListed(b[n].k)
             /\ \E p \in PartsOf(b[n].k) :
                  /\ DictHas(b, Some(p))
                  /\ ~(Range(DictGet(b, Some(p))) \subseteq Range(b[n].v))
                  /\ Range(DictGet(DictGet(Val(built).index, s), Some(p)))
                       = Range(DictGet(b, Some(p))) \cup Range(b[n].v)
  /\ \E s \in Range(DictKeys(Val(built).accumulated)) :
       LET b == DictGet(Val(built).accumulated, s)
       IN  \E n \in 1..Len(b) : IsAllowListed(b[n].k) /\ IsCombinedKey(b[n].k)


Pass1Done == cmd = "pass1" /\ phase = "done"

\* every subject entry of every chapter whose response parsed, the blank
\* subject names left out
Pass1Entries ==
  {e \in UNION {Range(Val(response[c].json).subjects) :
                  c \in {d \in Chapters : Parsed(response[d])}} :
     Strip(e.subject) # <<>>}

\* the key under which an entry is aggregated: its trimmed name, lowercased
SubjectKey(e) == Lower(Strip(e.subject))

\* the subtopics an entry brings: lowercased, trimmed, the empty ones left out
SubtopicsOf(e) ==
  {Strip(Lower(e.subtopics[i])) :
     i \in {j \in 1..Len(e.subtopics) : e.subtopics[j] # <<>>}}

\* C3: candidates.json written by run_pass1 has exactly one entry, with
\* include = true, for each distinct lowercased (trimmed) subject name of the
\* parsed chapters; the entries are in strictly ascending order of lowercased
\* subject; each entry's subtopics are duplicate-free and are the union of the
\* subtopics of all entries with that key.  Keys and subtopic sets are given
\* by the set of entries alone, hence the same for every order of the entries.
C3_CaseInsensitiveReduction ==
  Pass1Done =>
    LET cands == Val(candidatesFile)
    IN  /\ {Lower(cands[i].subject) : i \in 1..Len(cands)}
             = {SubjectKey(e) : e \in Pass1Entries}
        /\ \A i, j \in 1..Len(cands) :
             i < j => StrLess(Lower(cands[i].subject), Lower(cands[j].subject))
        /\ \A i \in 1..Len(cands) :
             /\ cands[i].include
             /\ NoDup(cands[i].subtopics)
             /\ Range(cands[i].subtopics)
                  = UNION {SubtopicsOf(e) :
                             e \in {f \in Pass1Entries :
                                      SubjectKey(f) = Lower(cands[i].subject)}}

\* C3's case: two chapters spell one subject in different case, and the one
\* candidate entry holds the union of their subtopics, next to another subject
C3_Witness ==
  /\ Pass1Done
  /\ \E e, f \in Pass1Entries :
       /\ e.subject # f.subject
       /\ SubjectKey(e) = SubjectKey(f)
       /\ SubtopicsOf(e) # SubtopicsOf(f)
       /\ \E i \in 1..Len(Val(candidatesFile)) :
            /\ Lower(Val(candidatesFile)[i].subject) = SubjectKey(e)
            /\ Val(candidatesFile)[i].subtopics = <<s_orbits, s_tides>>
  /\ Len(Val(candidatesFile)) = 2


\* the chapters whose model call raised or returned text that is not JSON
FailedChapters == {c \in Chapters : ~Parsed(response[c])}

\* the records of a raw results file that are about chapter c
RecordsOf(raw, c) == {n \in 1..Len(raw) : raw[n].chapter_num = c}

\* every chapter number held anywhere in an index
ChaptersIn(index) ==
  UNION {UNION {Range(DictGet(index, s)[n].v) : n \in 1..Len(DictGet(index, s))} :
           s \in Range(DictKeys(index))}

\* C4: whichever chapters' calls raise or return text that is not JSON, Pass 1
\* and Pass 2 finish with exactly one record per chapter; a failed chapter's
\* record has a non-null error and no entries, and the chapter contributes
\* nothing to the aggregation; every other chapter's record has error = null
\* and the parsed entries, and is aggregated; no chapter's model call is issued
\* more than once.
C4_FailureIsolated ==
  /\ cmd \in {"pass1", "pass2"} => \A c \in Tasks : calls[c] <= 1
  /\ Pass1Done =>
       LET raw == Val(rawFile)
       IN  /\ \A c \in Chapters :
                /\ Cardinality(RecordsOf(raw, c)) = 1
                /\ calls[c] = 1
                /\ \A n \in RecordsOf(raw, c) :
                     IF c \in FailedChapters
                     THEN raw[n].error # None /\ raw[n].subjects = <<>>
                     ELSE /\ raw[n].error = None
                          /\ raw[n].subjects = Val(response[c].json).subjects
           /\ Len(raw) = Cardinality(Chapters)
           /\ {Lower(Val(candidatesFile)[i].subject) :
                 i \in 1..Len(Val(candidatesFile))}
                = {SubjectKey(e) : e \in Pass1Entries}
  /\ Pass2Done =>
       LET raw == Val(rawFile)
       IN  /\ \A c \in Chapters :
                /\ Cardinality(RecordsOf(raw, c)) = 1
                /\ calls[c] = 1
                /\ \A n \in RecordsOf(raw, c) :
                     IF c \in FailedChapters
                     THEN raw[n].error # None /\ raw[n].entries = <<>>
                     ELSE /\ raw[n].error = None
                          /\ raw[n].entries = Val(response[c].json)
           /\ Len(raw) = Cardinality(Chapters)
           /\ ChaptersIn(Val(built).index) \cap FailedChapters = {}
           /\ \A c \in Chapters \ FailedChapters :
                \A t \in 1..Len(TagsOf(c)) :
                  \A i \in 1..Len(ApprovedSubjects) :
                    (TagSubject(TagsOf(c)[t]) # <<>> /\ ResolvesAt(TagsOf(c)[t], i))
                      => c \in UNION {ChaptersUnder(Val(built).accumulated,
                                                    ApprovedSubjects[i].subject, k) :
                                        k \in AllTagKeys}

\* C4's case: a finished Pass 2 in which one chapter's call failed and another
\* chapter's tags went into the index
C4_Witness ==
  /\ Pass2Done
  /\ FailedChapters # {}
  /\ \E c \in Chapters \ FailedChapters : c \in ChaptersIn(Val(built).index)
  /\ \E n \in 1..Len(Val(rawFile)) : Val(rawFile)[n].error # None


\* the per-chapter records in chapter order, from the model responses alone
Pass1ByChapter == [c \in Chapters |-> Pass1Record(c, response[c])]

Pass2ByChapter == [c \in Chapters |-> Pass2Record(c, response[c])]

\* the raw results list is in strictly ascending chapter_num order
StrictlyAscending(raw) ==
  \A n, m \in 1..Len(raw) : n < m => raw[n].chapter_num < raw[m].chapter_num

\* C5: for every interleaving and completion order of the chapter calls, the
\* persisted raw results are in strictly ascending chapter_num order with one
\* record per chapter, and the candidate list (Pass 1) and the final index
\* (Pass 2) are those obtained from the per-chapter responses alone, hence the
\* same under any other completion order.
C5_CompletionOrderIrrelevant ==
  /\ Pass1Done =>
       /\ StrictlyAscending(Val(rawFile))
       /\ {Val(rawFile)[n].chapter_num : n \in 1..Len(Val(rawFile))} = Chapters
       /\ rawFile = Some(Pass1ByChapter)
       /\ candidatesFile = Some(BuildCandidates(Pass1ByChapter))
  /\ Pass2Done =>
       /\ StrictlyAscending(Val(rawFile))
       /\ {Val(rawFile)[n].chapter_num : n \in 1..Len(Val(rawFile))} = Chapters
       /\ rawFile = Some(Pass2ByChapter)
       /\ Val(built).index
            = NormalizeIndex(AccumulateResults(<<>>, Pass2ByChapter, ApprovedSubjects))
       /\ finalIndexFile = Some(SerializeIndex(Val(built).index))

\* C5's case: a finished Pass 2 whose last chapter completed first, with both
\* the first and the last chapter in the index
C5_Witness ==
  /\ Pass2Done
  /\ Len(log) = Cardinality(Chapters)
  /\ log[1].task = Cardinality(Chapters)
  /\ log[Len(log)].task = 1
  /\ {1, Cardinality(Chapters)} \subseteq ChaptersIn(Val(built).index)


\* the subjects of an index that have at least one non-null subtopic
SubjectsWithSubtopics(index) ==
  {s \in Range(DictKeys(index)) : NamedSubtopics(DictGet(index, s)) # <<>>}

\* the positions of the file's lines that open the entry of subject s
SubjectLineOf(lines, s) ==
  {p \in 1..Len(lines) :
     /\ lines[p].kind \in {"subject_merged", "subject_alone", "subject_refs"}
     /\ lines[p].text = EscapeAmp(s)}

\* all non-null subtopics have the identical sorted chapter-number tuple
SameChapterTuple(named) ==
  \A i, j \in 1..Len(named) : SortedInts(named[i].v) = SortedInts(named[j].v)

\* C6: a subject with at least one non-null subtopic is rendered inline-merged
\* (one line: the subject, its subtopics sorted alphabetically, one shared
\* reference list) if and only if all its non-null subtopics have the identical
\* sorted chapter tuple; otherwise it is rendered standalone, followed by one
\* line per subtopic in alphabetical order, each with its own reference list.
C6_InlineMergeIff ==
  Pass2Done =>
    LET index == Val(built).index
        labels == Val(built).chapter_labels
        lines == Val(latexFile)
    IN  \A s \in SubjectsWithSubtopics(index) :
          LET named == NamedSubtopics(DictGet(index, s))
              names == SortedStrs(DictKeys(named))
          IN  /\ Cardinality(SubjectLineOf(lines, s)) = 1
              /\ \A p \in SubjectLineOf(lines, s) :
                   /\ lines[p].kind = "subject_merged" <=> SameChapterTuple(named)
                   /\ SameChapterTuple(named) =>
                        /\ lines[p].subs = names
                        /\ lines[p].refs = Refs(named[1].v, labels)
                        /\ lines[p + 1].kind # "subtopic"
                   /\ ~SameChapterTuple(named) =>
                        /\ lines[p].kind = "subject_alone"
                        /\ \A i \in 1..Len(names) :
                             lines[p + i]
                               = Line("subtopic", names[i], <<>>,
                                      Refs(DictGet(named, names[i]), labels))
                        /\ lines[p + Len(names) + 1].kind # "subtopic"

\* C6's case: one rendered file with a subject merged inline over two or more
\* subtopics and a subject rendered standalone because two of its subtopics
\* differ in their chapters
C6_Witness ==
  /\ Pass2Done
  /\ \E p \in 1..Len(Val(latexFile)) :
       /\ Val(latexFile)[p].kind = "subject_merged"
       /\ Len(Val(latexFile)[p].subs) >= 2
       /\ Len(Val(latexFile)[p].refs) >= 1
  /\ \E p \in 1..Len(Val(latexFile)) :
       /\ Val(latexFile)[p].kind = "subject_alone"
       /\ Val(latexFile)[p + 1].kind = "subtopic"
       /\ Val(latexFile)[p + 2].kind = "subtopic"
       /\ Val(latexFile)[p + 1].refs # Val(latexFile)[p + 2].refs


\* the end-to-end scenario: 'Gravity' is the approved subject its tags resolve
\* to, chapter 1 is tagged (Gravity, null) and (Gravity, tides), chapter 2 is
\* tagged (Gravity, tides), and no other chapter brings a tag
GravityScenario ==
  /\ Pass2Done
  /\ \E i \in 1..Len(ApprovedSubjects) :
       ApprovedSubjects[i].subject = Gravity /\ ResolvesAt(Tag(Gravity, None), i)
  /\ TagsOf(1) = << Tag(Gravity, None), Tag(Gravity, Some(s_tides)) >>
  /\ TagsOf(2) = << Tag(Gravity, Some(s_tides)) >>
  /\ \A c \in Chapters \ {1, 2} : TagsOf(c) = <<>>

\* Gravity: {null: [1], tides: [1, 2]}
GravityMapping ==
  << [k |-> Gravity,
      v |-> << [k |-> None, v |-> <<1>>], [k |-> Some(s_tides), v |-> <<1, 2>>] >>] >>

\* C7 as stated: the scenario yields the mapping Gravity: {null: [1],
\* tides: [1, 2]} and Gravity is rendered standalone-hierarchically, the bare
\* subject line carrying a reference to chapter 1 and 'tides' on its own line
\* with references to chapters 1 and 2.
C7_AsStated ==
  GravityScenario =>
    LET lines == Val(latexFile)
        labels == Val(built).chapter_labels
    IN  /\ Val(built).index = GravityMapping
        /\ \E p \in 1..(Len(lines) - 1) :
             /\ lines[p].kind \in {"subject_alone", "subject_refs"}
             /\ lines[p].text = Gravity
             /\ lines[p].refs = Refs(<<1>>, labels)
             /\ lines[p + 1] = Line("subtopic", s_tides, <<>>, Refs(<<1, 2>>, labels))

\* C7, amended: the scenario yields the mapping Gravity: {null: [1],
\* tides: [1, 2]} and Gravity is rendered inline-merged: the one line
\* 'Gravity (tides)' with the shared references to chapters 1 and 2; there is
\* no line of its own for 'tides' and no bare subject line.
C7_GravityMergedInline ==
  GravityScenario =>
    LET lines == Val(latexFile)
        labels == Val(built).chapter_labels
    IN  /\ Val(built).index = GravityMapping
        /\ \E p \in 1..Len(lines) :
             /\ lines[p] = Line("subject_merged", Gravity, <<s_tides>>,
                                Refs(<<1, 2>>, labels))
             /\ \A q \in 1..Len(lines) :
                  lines[q].kind \in {"subject_merged", "subject_alone",
                                     "subject_refs", "subtopic"} => q = p

\* C7's case: the scenario has run to its rendered file, chapter 1 carrying a
\* page-reference label
C7_Witness ==
  /\ GravityScenario
  /\ latexFile # None
  /\ DictHas(Val(built).chapter_labels, 1)
  /\ \E p \in 1..Len(Val(latexFile)) :
       /\ Val(latexFile)[p].text = Gravity
       /\ Len(Val(latexFile)[p].refs) = 2
       /\ Val(latexFile)[p].refs[1].pageref


\* C8 as stated: generate_latex called twice on the same index mapping and the
\* same chapter labels (by pass2, then by regenerate on the files pass2 left)
\* writes byte-identical output, whatever the time of the two calls.
C8_RenderingDeterministic ==
  ( /\ phase = "regenerated"
    /\ prevBuilt # None
    /\ Val(prevBuilt).index = Val(built).index
    /\ Val(prevBuilt).chapter_labels = Val(built).chapter_labels )
  => /\ Val(built).latex = Val(prevBuilt).latex
     /\ latexFile = Some(Val(prevBuilt).latex)


\* the positions of the letter headers and of the subjects' opening lines
LetterLines(lines) == {p \in 1..Len(lines) : lines[p].kind = "letter"}

SubjectLinesAt(lines) ==
  {p \in 1..Len(lines) :
     lines[p].kind \in {"subject_merged", "subject_alone", "subject_refs"}}

\* the subject whose entry opens at line p
SubjectAt(index, lines, p) ==
  CHOOSE s \in Range(DictKeys(index)) : EscapeAmp(s) = lines[p].text

\* the header a line stands under: the last letter header before it
HeaderAbove(lines, p) ==
  LET above == {q \in LetterLines(lines) : q < p}
  IN  IF above = {} THEN None
      ELSE Some(lines[CHOOSE q \in above : \A r \in above : r <= q].text)

\* C9: generate_latex processes the subjects in case-insensitive sorted order
\* and emits a letter header exactly when the uppercased first character of
\* the current subject differs from that of the previous one; consequently
\* each distinct uppercased first character gets exactly one header, and every
\* subject line stands under the header of its own first character.
C9_OneHeaderPerLetter ==
  Pass2Done =>
    LET index == Val(built).index
        lines == Val(latexFile)
    IN  /\ \A p, q \in SubjectLinesAt(lines) :
             p < q => ~StrLess(Lower(SubjectAt(index, lines, q)),
                               Lower(SubjectAt(index, lines, p)))
        /\ {SubjectAt(index, lines, p) : p \in SubjectLinesAt(lines)}
             = Range(DictKeys(index))
        /\ \A p \in SubjectLinesAt(lines) :
             LET before == {q \in SubjectLinesAt(lines) : q < p}
                 headed == \E h \in LetterLines(lines) :
                             h < p /\ \A q \in before : q < h
             IN  headed <=>
                   \/ before = {}
                   \/ \E q \in before :
                        /\ \A r \in before : r <= q
                        /\ FirstLetter(SubjectAt(index, lines, q))
                             # FirstLetter(SubjectAt(index, lines, p))
        /\ \A p, q \in LetterLines(lines) : lines[p].text = lines[q].text => p = q
        /\ {lines[p].text : p \in LetterLines(lines)}
             = {FirstLetter(s) : s \in Range(DictKeys(index))}
        /\ \A p \in SubjectLinesAt(lines) :
             HeaderAbove(lines, p) = Some(FirstLetter(SubjectAt(index, lines, p)))


ConsolidateDone == cmd = "consolidate" /\ phase = "done"

\* the batches whose model call raised or returned text that is not JSON
FailedBatches == {i \in Tasks : ~Parsed(response[i])}

\* what the other batches returned, in batch order
OtherBatches ==
  LET good == SetToSortedInts(Tasks \ FailedBatches)
  IN  [n \in 1..Len(good) |-> Val(response[good[n]].json)]

\* C10: in the consolidator a batch whose call raises or returns text that is
\* not JSON contributes no consolidated and no removed subjects; the run
\* completes all the same (once every batch has returned the merge has an
\* outcome to write, whichever batches failed), the failure is logged, and
\* candidates_consolidated.json and subjects_removed.json hold exactly the
\* contributions of the other batches.
C10_FailedBatchDropped ==
  /\ (cmd = "consolidate" /\ phase = "running" /\ AllDone) =>
       ConsolidatedOutcomes(Gather) # {}
  /\ ConsolidateDone =>
       /\ \A i \in Tasks :
            /\ i \in FailedBatches =>
                 Val(taskResult[i]) = [consolidated |-> <<>>, removed |-> <<>>]
            /\ Cardinality({n \in 1..Len(log) :
                              log[n].task = i /\ log[n].level = "error"})
                 = IF i \in FailedBatches THEN 1 ELSE 0
       /\ consolidatedFile # None
       /\ removedFile # None
       /\ consolidatedFile
            \in {Some(c) : c \in ConsolidatedOutcomes(OtherBatches)}
       /\ {ConsolidatedKey(Val(consolidatedFile)[n]) :
             n \in 1..Len(Val(consolidatedFile))}
            = {ConsolidatedKey(item) : item \in Range(AllConsolidated(OtherBatches))}
       /\ Range(Val(removedFile)) = Range(AllRemoved(OtherBatches))
       /\ removedFile = Some(SortedSet(Range(AllRemoved(OtherBatches))))

\* C10's case: a finished consolidator run in which one batch failed and
\* another batch's subjects and removals were written
C10_Witness ==
  /\ ConsolidateDone
  /\ FailedBatches # {}
  /\ Tasks \ FailedBatches # {}
  /\ Val(consolidatedFile) # <<>>
  /\ Val(removedFile) # <<>>
  /\ \E n \in 1..Len(log) : log[n].level = "error"


\* every consolidated entry any batch returned, failed batches returning none
BatchEntries == Range(AllConsolidated(Gather))

\* the case-insensitive union of the subtopics of all batch entries under key
SubtopicUnion(key) ==
  UNION {{Strip(Lower(item.subtopics[n])) : n \in 1..Len(item.subtopics)} :
           item \in {e \in BatchEntries : ConsolidatedKey(e) = key}}

\* C11 as stated: after the cross-batch deduplication
\* candidates_consolidated.json has exactly one entry per distinct lowercased,
\* trimmed subject name returned by any batch; the entry's subtopic list is
\* duplicate-free, also when case is ignored, and is the union of the subtopic
\* lists of all batch entries with that key, capped at 8; and the same batch
\* responses always give the same file.
C11_ConsolidatedUnion ==
  ConsolidateDone =>
    LET out == Val(consolidatedFile)
    IN  /\ {ConsolidatedKey(out[n]) : n \in 1..Len(out)}
             = {ConsolidatedKey(e) : e \in BatchEntries}
        /\ \A n, m \in 1..Len(out) :
             ConsolidatedKey(out[n]) = ConsolidatedKey(out[m]) => n = m
        /\ \A n \in 1..Len(out) :
             LET lowered == [k \in 1..Len(out[n].subtopics) |->
                               Strip(Lower(out[n].subtopics[k]))]
                 union == SubtopicUnion(ConsolidatedKey(out[n]))
             IN  /\ NoDup(lowered)
                 /\ Range(lowered) \subseteq union
                 /\ Len(lowered) = IF Cardinality(union) < MAX_SUBTOPICS
                                   THEN Cardinality(union) ELSE MAX_SUBTOPICS
        /\ Cardinality(ConsolidatedOutcomes(Gather)) = 1


\* no model call was issued and no output file was written
NothingDone ==
  /\ \A i \in Tasks : calls[i] = 0
  /\ cmd # "regenerate" => rawFile = None
  /\ cmd = "pass1" => candidatesFile = None
  /\ finalIndexFile = None
  /\ latexFile = None
  /\ consolidatedFile = None
  /\ removedFile = None

\* a prerequisite file of the command is missing
PrerequisiteMissing ==
  \/ cmd \in {"pass2", "regenerate", "consolidate"} /\ candidatesFile = None
  \/ cmd = "regenerate" /\ rawFile = None

\* the process ended with a message and a non-zero exit
EndedInError == phase = "aborted" /\ exitCode = Some(1) /\ message # ""

\* C12 as stated: without an API key every command that calls the model
\* (pass1, pass2, the consolidator) ends with a non-zero exit before any model
\* call and before any output file is written; with a prerequisite file
\* missing (candidates.json for pass2, regenerate and the consolidator,
\* pass2_raw_results.json for regenerate) the command ends with a message and
\* a non-zero exit, again with no call issued and no file written.
C12_FatalPreconditions ==
  /\ (~apiKey /\ cmd \in {"pass1", "pass2", "consolidate"}) =>
       /\ NothingDone
       /\ phase \in {"starting", "aborted"}
       /\ phase = "aborted" => exitCode = Some(1)
  /\ PrerequisiteMissing =>
       /\ NothingDone
       /\ phase \in {"starting", "aborted"}
       /\ phase = "aborted" => EndedInError


\* the non-null subtopic keys an index holds under a subject
NamedKeys(index, s) ==
  {DictGet(index, s)[n].k : n \in 1..Len(DictGet(index, s))} \ {None}

\* the chapters with a tag resolved to `subject` whose subtopic was split at
\* ' and ' and has `key` among its parts
ChaptersTaggedCombined(subject, key) ==
  UNION {ChaptersTagged(subject, combined) :
           combined \in {k \in AllTagKeys :
                           /\ IsCombinedKey(k)
                           /\ ~IsAllowListed(k)
                           /\ Val(key) \in PartsOf(k)}}

\* C13 as stated: in the final index mapping, after the normalization pass,
\* every non-null subtopic key under a subject equals the lowercased, trimmed
\* subtopic of some Pass-2 tag that resolved to that subject, and every
\* chapter listed under the key carries such a tag.
C13_EveryKeyTagged ==
  Pass2Done =>
    \A s \in Range(DictKeys(Val(built).index)) :
      \A key \in NamedKeys(Val(built).index, s) :
        /\ ChaptersTagged(s, key) # {}
        /\ ChaptersUnder(Val(built).index, s, key) \subseteq ChaptersTagged(s, key)

\* C13, amended: in the final index mapping, after the normalization pass,
\* every non-null subtopic key under a subject equals the lowercased, trimmed
\* subtopic of some Pass-2 tag that resolved to that subject, or is a trimmed
\* part of such a subtopic that was split at ' and '; the key lists at least
\* one chapter and every chapter listed under it carries such a tag.
C13_EveryKeyTaggedOrSplit ==
  Pass2Done =>
    \A s \in Range(DictKeys(Val(built).index)) :
      \A key \in NamedKeys(Val(built).index, s) :
        /\ ChaptersUnder(Val(built).index, s, key) # {}
        /\ ChaptersUnder(Val(built).index, s, key)
             \subseteq ChaptersTagged(s, key) \cup ChaptersTaggedCombined(s, key)

\* C13's case: a final index with a key no tag named (it is a part of a split
\* subtopic), a key that was tagged as it stands, and a key that is both, for
\* different chapters
C13_Witness ==
  /\ Pass2Done
  /\ \E s \in Range(DictKeys(Val(built).index)) :
       \E k1, k2 \in NamedKeys(Val(built).index, s) :
         /\ ChaptersTagged(s, k1) = {}
         /\ ChaptersTaggedCombined(s, k1) # {}
         /\ ChaptersTagged(s, k2) # {}
         /\ ChaptersTaggedCombined(s, k2) # {}
         /\ ChaptersTagged(s, k2) \cap ChaptersTaggedCombined(s, k2) = {}
  /\ \E s \in Range(DictKeys(Val(built).index)) :
       \E k \in NamedKeys(Val(built).index, s) : IsAllowListed(k)


\* a key the normalization pass splits
IsSplitKey(key) == IsCombinedKey(key) /\ ~IsAllowListed(key)

\* every chapter list of a subject's subtopics is free of duplicates
ListsDuplicateFree(subtopics) == \A n \in 1..Len(subtopics) : NoDup(subtopics[n].v)

\* C14: the normalization pass never removes or invents chapters: each
\* chapter listed under a subtopic key before the pass is listed after it
\* under the same key if the key is kept, or under every part if the key is
\* split; the set of chapters of the subject as a whole is unchanged; and
\* every chapter list is free of duplicates, after accumulation and after
\* the pass.
C14_ChaptersPreserved ==
  Pass2Done =>
    LET before == Val(built).accumulated
        after == Val(built).index
    IN  /\ DictKeys(after) = DictKeys(before)
        /\ \A s \in Range(DictKeys(before)) :
             LET b == DictGet(before, s)
                 a == DictGet(after, s)
             IN  /\ \A n \in 1..Len(b) :
                      IF IsSplitKey(b[n].k)
                      THEN \A p \in PartsOf(b[n].k) :
                             Range(b[n].v) \subseteq ChaptersUnder(after, s, Some(p))
                      ELSE Range(b[n].v) \subseteq ChaptersUnder(after, s, b[n].k)
                 /\ AllChapters(a) = AllChapters(b)
                 /\ ListsDuplicateFree(b)
                 /\ ListsDuplicateFree(a)
                 /\ NoDup(DictKeys(a))

\* C14's case: a key whose split names one part twice ('x and y and x'),
\* tagged in two chapters, next to a subject with a key that is kept
C14_Witness ==
  /\ Pass2Done
  /\ \E s \in Range(DictKeys(Val(built).accumulated)) :
       LET b == DictGet(Val(built).accumulated, s)
       IN  \E n \in 1..Len(b) :
             /\ IsSplitKey(b[n].k)
             /\ Len(Split(Val(b[n].k), AND_SEPARATOR)) > Cardinality(PartsOf(b[n].k))
             /\ Len(b[n].v) >= 2
  /\ \E s \in Range(DictKeys(Val(built).accumulated)) :
       LET b == DictGet(Val(built).accumulated, s)
       IN  \E n \in 1..Len(b) : b[n].k # None /\ ~IsSplitKey(b[n].k)


\* the tasks that have returned
Returned == {i \in Tasks : pc[i] = "done"}

\* no merge step has started: none of its files is written
NothingMerged ==
  /\ rawFile = None
  /\ cmd = "pass1" => candidatesFile = None
  /\ built = None
  /\ finalIndexFile = None
  /\ latexFile = None
  /\ consolidatedFile = None
  /\ removedFile = None

\* no merge step starts until every concurrent task has completed
MergeAfterAllTasks ==
  cmd \in {"pass1", "pass2", "consolidate"} =>
    /\ ~AllDone => NothingMerged
    /\ phase \in {"done", "regenerated"} => AllDone

\* C15 as stated: in run_pass1, run_pass2 and the consolidator's main no
\* running task reads or writes mutable state shared with another task (the
\* one such object, the progress counter of run_pass2, is never touched), and
\* no merge step starts until every concurrent task has completed.
C15_NoSharedState ==
  /\ cmd \in {"pass1", "pass2", "consolidate"} => completed = 0
  /\ MergeAfterAllTasks

\* C15, amended: in run_pass1 and the consolidator's main no running task
\* reads or writes mutable state shared with another task; in run_pass2 the
\* only shared mutable state a task touches is the progress counter, which
\* each task increments once when its call has returned, no increment being
\* lost, and on which no task's result depends; and no merge step starts until
\* every concurrent task has completed.
C15_OnlyProgressCounterShared ==
  /\ cmd \in {"pass1", "consolidate"} => completed = 0
  /\ cmd = "pass2" =>
       /\ completed = Cardinality(Returned)
       /\ \A i \in Returned : taskResult[i] = Some(Pass2Record(i, response[i]))
  /\ cmd = "pass1" =>
       \A i \in Returned : taskResult[i] = Some(Pass1Record(i, response[i]))
  /\ cmd = "consolidate" =>
       \A i \in Returned : taskResult[i] = Some(BatchResult(response[i]))
  /\ MergeAfterAllTasks

\* C15's case: in run_pass2 one task has returned and counted itself while
\* another is still waiting for its call, and nothing is merged yet
C15_Witness ==
  /\ cmd = "pass2"
  /\ phase = "running"
  /\ completed = 1
  /\ \E i, j \in Tasks : pc[i] = "done" /\ pc[j] = "awaiting"
  /\ NothingMerged


\* the lines rendered for the subject whose entry opens at line p: that line
\* and the subtopic lines that follow it
EntryLines(lines, p) ==
  {p} \cup {q \in (p + 1)..Len(lines) :
              \A r \in (p + 1)..q : lines[r].kind = "subtopic"}

\* the references on a set of lines
RefsOn(lines, ps) ==
  UNION {{lines[q].refs[n] : n \in 1..Len(lines[q].refs)} : q \in ps}

\* C16 as stated: for every subject of the index passed to generate_latex,
\* every chapter stored under any of its subtopic keys, the null key included,
\* appears as a reference (page-reference token or raw number) on the lines
\* rendered for that subject, whichever of the three forms it is rendered in.
C16_NoReferenceLost ==
  (cmd \in {"pass2", "regenerate"} /\ built # None) =>
    LET index == Val(built).index
        labels == Val(built).chapter_labels
        lines == Val(latexFile)
    IN  \A s \in Range(DictKeys(index)) :
          \A p \in SubjectLineOf(lines, s) :
            \A ch \in AllChapters(DictGet(index, s)) :
              Ref(ch, labels) \in RefsOn(lines, EntryLines(lines, p))


\* the entries of the expected shape
WellShaped(entries) == SelectSeq(entries, LAMBDA e : e.shape = "object")

\* the raw results without the entries of another shape
WithoutMisshapen(results) ==
  [n \in 1..Len(results) |-> [results[n] EXCEPT !.entries = WellShaped(@)]]

\* what build_final_index makes of the well-shaped entries alone
ExpectedOfWellShaped ==
  build_final_index(WithoutMisshapen(Val(rawFile)), ApprovedSubjects, mainTex, clock)

\* C17 as stated: once pass2 has gathered and saved the raw results, whatever
\* the shape of the JSON the responses held, the run does not abort:
\* build_final_index completes, final_index.json and the rendered lines are
\* written, and they are exactly what the well-shaped entries of all chapters
\* give, so a misshapen element contributes nothing and every other tag is kept.
C17_MisshapenTolerated ==
  (cmd = "pass2" /\ rawFile # None) =>
    /\ phase \in {"done", "regenerated"}
    /\ exitCode = Some(0)
    /\ built # None
    /\ Val(built).index = ExpectedOfWellShaped.index
    /\ finalIndexFile = Some(ExpectedOfWellShaped.final_index_json)
    /\ latexFile \in {Some(generate_latex(ExpectedOfWellShaped.index,
                                          ExpectedOfWellShaped.chapter_labels, t)) :
                        t \in {0, clock}}

=============================================================================
